---- MODULE Spec2Model ----
(***************************************************************************)
(* Model of the ADB session handshake in packages/demo/src/router.tsx      *)
(* (class Adb): connect(), its packet and error handlers, parseBanner and  *)
(* dispose(), together with the parts of AdbPacketDispatcher the session   *)
(* drives (start, sendPacket, onPacket, onError, dispose).  Three further  *)
(* specifications run one operation each on its own: BannerSpec            *)
(* (parseBanner), ReadSpec (createStreamAndReadAll) and RouteSpec          *)
(* (the CacheRoute component).                                             *)
(*                                                                         *)
(* One Adb object performs one connect() call ("callers must re-invoke     *)
(* connect() on a fresh Session").  Strings are sequences of tokens: the   *)
(* delimiters ":", ";", "=", "," are single characters, the property keys  *)
(* and the value words are atomic tokens.                                  *)
(***************************************************************************)
EXTENDS Integers, Sequences, FiniteSets, TLC

\* bounds of the model
MaxPackets == 3

\* constants of Adb.connect
version == 16777217
versionNoChecksum == 16777217
maxPayloadSize == 1048576
initialMaxPayloadSize == 4096

\* AdbPropKey
Product == <<"ro.product.name">>
Model == <<"ro.product.model">>
Device == <<"ro.product.device">>
Features == <<"features">>

Min(a, b) == IF a <= b THEN a ELSE b

\* an optional value: undefined, or a defined value
Undefined == <<>>
Some(v) == <<v>>

(***************************************************************************)
(* String.prototype.split with a non-empty separator, on token sequences.  *)
(***************************************************************************)
StartsWith(s, sep) ==
    /\ Len(s) >= Len(sep)
    /\ SubSeq(s, 1, Len(sep)) = sep

RECURSIVE SplitFrom(_, _, _)
SplitFrom(s, sep, cur) ==
    IF s = <<>> THEN <<cur>>
    ELSE IF StartsWith(s, sep)
         THEN <<cur>> \o SplitFrom(SubSeq(s, Len(sep) + 1, Len(s)), sep, <<>>)
         ELSE SplitFrom(Tail(s), sep, Append(cur, Head(s)))

Split(s, sep) == SplitFrom(s, sep, <<>>)

(***************************************************************************)
(* Adb.parseBanner: the metadata fields after parsing `banner`, starting   *)
(* from the fields `meta`.                                                 *)
(***************************************************************************)
\* variant: an entry with more than one "=" is taken as key and value
ApplyPropLenient(meta, prop) ==
    IF prop = <<>> THEN meta
    ELSE LET keyValue == Split(prop, <<"=">>) IN
         IF Len(keyValue) < 2 THEN meta
         ELSE LET key == keyValue[1]
                  value == keyValue[2]
              IN CASE key = Product -> [meta EXCEPT !.product = Some(value)]
                   [] key = Model -> [meta EXCEPT !.model = Some(value)]
                   [] key = Device -> [meta EXCEPT !.device = Some(value)]
                   [] key = Features ->
                        [meta EXCEPT !.features = Some(Split(value, <<",">>))]
                   [] OTHER -> meta

ApplyProp(meta, prop) ==
    IF prop = <<>> THEN meta
    ELSE LET keyValue == Split(prop, <<"=">>) IN
         IF Len(keyValue) # 2 THEN meta
         ELSE LET key == keyValue[1]
                  value == keyValue[2]
              IN CASE key = Product -> [meta EXCEPT !.product = Some(value)]
                   [] key = Model -> [meta EXCEPT !.model = Some(value)]
                   [] key = Device -> [meta EXCEPT !.device = Some(value)]
                   [] key = Features ->
                        [meta EXCEPT !.features = Some(Split(value, <<",">>))]
                   [] OTHER -> meta

RECURSIVE ApplyProps(_, _)
ApplyProps(meta, props) ==
    IF props = <<>> THEN meta
    ELSE ApplyProps(ApplyProp(meta, Head(props)), Tail(props))

parseBanner(meta, banner) ==
    LET cleared == [meta EXCEPT !.features = Some(<<>>)]
        pieces == Split(banner, <<":", ":">>)
    IN IF Len(pieces) > 1
       THEN ApplyProps(cleared, Split(pieces[2], <<";">>))
       ELSE cleared

NoMeta ==
    [product |-> Undefined, model |-> Undefined,
     device |-> Undefined, features |-> Undefined]

(***************************************************************************)
(* Inputs: what the peer, the transport and the authenticators may do.     *)
(***************************************************************************)
PeerVersions == {16777216, 16777217, 16777218}
PeerSizes == {0, 4096, 1048576, 1048577}
PlainBanner == <<"device">>
Banners ==
    { PlainBanner,
      <<"device", ":", ":", "ro.product.name", "=", "a", ";",
        "features", "=", "a", ",", "b", ";">>,
      <<"device", ":", ":", "bad", ";", "ro.product.model", "=", "b">> }

OtherCommands == {"OPEN", "OKAY", "WRTE"}
Commands == {"CNXN", "AUTH", "CLSE"} \cup OtherCommands
DispatcherErrors == {"MalformedPacket", "TransportError"}

\* every peer version, every peer size and every banner, one varied at a time
ConnectReplies ==
    [command : {"CNXN"}, arg0 : PeerVersions, arg1 : {maxPayloadSize},
     payload : {PlainBanner}]
    \cup [command : {"CNXN"}, arg0 : {version}, arg1 : PeerSizes,
          payload : {PlainBanner}]
    \cup [command : {"CNXN"}, arg0 : {version}, arg1 : {maxPayloadSize},
          payload : Banners]
PlainPackets ==
    [command : Commands \ {"CNXN"}, arg0 : {0}, arg1 : {0}, payload : {<<>>}]
Packets == ConnectReplies \cup PlainPackets

PacketIds == 1..MaxPackets

VARIABLES
    pc,                         \* position of the connect() call
    connectError,               \* what connect() threw
    connected,                  \* Adb._connected
    meta,                       \* Adb._product, _model, _device, _features
    dispatcherMaxPayloadSize,   \* packetDispatcher.maxPayloadSize
    calculateChecksum,          \* packetDispatcher.calculateChecksum
    appendNullToServiceString,  \* packetDispatcher.appendNullToServiceString
    running,                    \* the dispatcher's inbound pipeline runs
    disposed,                   \* packetDispatcher.dispose() was called
    resolver,                   \* state of connect()'s PromiseResolver
    resolverError,              \* reason the resolver was rejected with
    continuationQueued,         \* the resolver was settled inside the inbound
                                \* pipeline while connect() awaited it
    packetSub,                  \* the onPacket subscription is active
    errorSub,                   \* the onError subscription is active
    sent,                       \* packets written by sendPacket, in order
    inbox,                      \* inbound packets so far: command, handled
    authState,                  \* per inbound packet: progress of its AUTH handler
    authCalls,                  \* packet ids passed to authHandler.next, in order
    lastConnect,                \* last CONNECT packet delivered to the handler
    peerVersions,               \* arg0 of every CONNECT packet delivered to it
    sendCalls,                  \* command, arg0, arg1 of every sendPacket call
    firstEvent,                 \* first event that tried to settle the handshake
    banner,                     \* parseBanner alone: the banner it is given
    parsed,                     \* parseBanner alone: it has run
    readPc,                     \* position of a createStreamAndReadAll() call
    result,                     \* its local `result`
    returned,                   \* the value its promise was resolved with
    delivered,                  \* buffers the stream passed to onData, in order
    closedAfter,                \* how many of them it had passed when it closed
    everMatched,                \* CacheRoute: everMatched.current
    memoDeps,                   \* CacheRoute: dependencies useMemo last ran with
    stackProps,                 \* CacheRoute: the memoized stackProps
    output,                     \* CacheRoute: what the last render returned
    renders                     \* CacheRoute: match and props of every render

handshakeVars ==
    <<pc, connectError, connected, meta, dispatcherMaxPayloadSize,
      calculateChecksum, appendNullToServiceString, running, disposed,
      resolver, resolverError, continuationQueued, packetSub, errorSub,
      sent, inbox, authState, authCalls, lastConnect, peerVersions,
      sendCalls, firstEvent>>

bannerVars == <<banner, parsed>>
readVars == <<readPc, result, returned, delivered, closedAfter>>
routeVars == <<everMatched, memoDeps, stackProps, output, renders>>
otherVars == <<bannerVars, readVars, routeVars>>
vars == <<handshakeVars, otherVars>>

sessionVars == <<connected, meta>>
paramVars ==
    <<dispatcherMaxPayloadSize, calculateChecksum, appendNullToServiceString>>
resolverVars == <<resolver, resolverError, continuationQueued>>
historyVars == <<inbox, lastConnect, peerVersions, firstEvent>>
subVars == <<packetSub, errorSub>>
authVars == <<authState, authCalls>>
callVars == <<pc, connectError>>

NewSession ==
    /\ pc = "idle"
    /\ connectError = "none"
    /\ connected = FALSE
    /\ meta = NoMeta
    /\ dispatcherMaxPayloadSize = 0
    /\ calculateChecksum \in BOOLEAN
    /\ appendNullToServiceString \in BOOLEAN
    /\ running = FALSE
    /\ disposed = FALSE
    /\ resolver = "none"
    /\ resolverError = "none"
    /\ continuationQueued = FALSE
    /\ packetSub = FALSE
    /\ errorSub = FALSE
    /\ sent = <<>>
    /\ inbox = <<>>
    /\ authState = [i \in PacketIds |-> "none"]
    /\ authCalls = <<>>
    /\ lastConnect = Undefined
    /\ peerVersions = {}
    /\ firstEvent = "none"
    /\ sendCalls = <<>>

\* parseBanner is not run on its own
NoBanner ==
    /\ banner = Undefined
    /\ parsed = FALSE

\* createStreamAndReadAll is not called
NoRead ==
    /\ readPc = "idle"
    /\ result = <<>>
    /\ returned = Undefined
    /\ delivered = <<>>
    /\ closedAfter = Undefined

\* a CacheRoute before its first render
NoRender ==
    /\ everMatched = FALSE
    /\ memoDeps = Undefined
    /\ stackProps = Undefined
    /\ output = Undefined
    /\ renders = <<>>

Init ==
    /\ NewSession
    /\ NoBanner
    /\ NoRead
    /\ NoRender

(***************************************************************************)
(* PromiseResolver: the first resolve or reject settles it, later ones do  *)
(* nothing.                                                                *)
(***************************************************************************)
Resolve ==
    /\ resolver' = IF resolver = "pending" THEN "resolved" ELSE resolver
    /\ UNCHANGED resolverError

\* variant: a rejection replaces an earlier settlement
RejectOverrides(e) ==
    /\ resolver' = "rejected"
    /\ resolverError' = e

Reject(e) ==
    /\ resolver' = IF resolver = "pending" THEN "rejected" ELSE resolver
    /\ resolverError' = IF resolver = "pending" THEN e ELSE resolverError

\* the order of events that try to settle the handshake
Note(e) == firstEvent' = IF firstEvent = "none" THEN e ELSE firstEvent

\* A settlement made by the inbound pipeline while connect() awaits the
\* resolver runs connect()'s continuation before the next pipeline event.
SettledInPipeline ==
    continuationQueued' =
        \/ continuationQueued
        \/ (pc = "waiting" /\ resolver = "pending" /\ resolver' # "pending")

PipelineReady == running /\ ~(pc = "waiting" /\ continuationQueued)

(***************************************************************************)
(* Adb.connect up to the await of the resolver.                            *)
(***************************************************************************)
\* variant: CONNECT advertises the dispatcher's initial payload size
ConnectPacketInitialSize ==
    [command |-> "CNXN", arg0 |-> version, arg1 |-> initialMaxPayloadSize,
     for |-> 0]

ConnectPacket ==
    [command |-> "CNXN", arg0 |-> version, arg1 |-> maxPayloadSize, for |-> 0]

\* what a call of sendPacket is recorded as
Called(packet) ==
    [command |-> packet.command, arg0 |-> packet.arg0, arg1 |-> packet.arg1]

CallConnect ==
    /\ pc = "idle"
    /\ pc' = "opening"
    /\ UNCHANGED <<sendCalls, otherVars>>
    /\ UNCHANGED <<connectError, sessionVars, paramVars, running, disposed,
                   resolverVars, subVars, sent, authVars, historyVars>>

BackendConnectFail ==
    /\ pc = "opening"
    /\ pc' = "thrown"
    /\ connectError' = "TransportError"
    /\ UNCHANGED <<sendCalls, otherVars>>
    /\ UNCHANGED <<sessionVars, paramVars, running, disposed, resolverVars,
                   subVars, sent, authVars, historyVars>>

\* variant: only the payload size is set before start()
InitialParametersKeepFlags ==
    /\ dispatcherMaxPayloadSize' = initialMaxPayloadSize
    /\ UNCHANGED <<calculateChecksum, appendNullToServiceString>>

InitialParameters ==
    /\ dispatcherMaxPayloadSize' = initialMaxPayloadSize
    /\ calculateChecksum' = TRUE
    /\ appendNullToServiceString' = TRUE

StartHandshake ==
    /\ pc = "opening"
    /\ ~disposed
    /\ InitialParameters
    /\ running' = TRUE
    /\ resolver' = "pending"
    /\ packetSub' = TRUE
    /\ errorSub' = TRUE
    /\ pc' = "sending"
    /\ sendCalls' = Append(sendCalls, Called(ConnectPacket))
    /\ UNCHANGED otherVars
    /\ UNCHANGED <<connectError, sessionVars, disposed, resolverError,
                   continuationQueued, sent, authVars, historyVars>>

StartAfterDispose ==
    /\ pc = "opening"
    /\ disposed
    /\ InitialParameters
    /\ pc' = "thrown"
    /\ connectError' = "Disposed"
    /\ UNCHANGED <<sendCalls, otherVars>>
    /\ UNCHANGED <<sessionVars, running, disposed, resolverVars, subVars,
                   sent, authVars, historyVars>>

\* variant: the session is marked Connected as soon as CONNECT is sent
SendConnectOkMarksConnected ==
    /\ pc = "sending"
    /\ ~disposed
    /\ sent' = Append(sent, ConnectPacket)
    /\ pc' = "waiting"
    /\ connected' = TRUE
    /\ continuationQueued' = (resolver # "pending")
    /\ UNCHANGED <<sendCalls, otherVars>>
    /\ UNCHANGED <<connectError, meta, paramVars, running, disposed, resolver,
                   resolverError, subVars, authVars, historyVars>>

SendConnectOk ==
    /\ pc = "sending"
    /\ ~disposed
    /\ sent' = Append(sent, ConnectPacket)
    /\ pc' = "waiting"
    \* a handshake settled during the send resumes connect() at once
    /\ continuationQueued' = (resolver # "pending")
    /\ UNCHANGED <<sendCalls, otherVars>>
    /\ UNCHANGED <<connectError, sessionVars, paramVars, running, disposed,
                   resolver, resolverError, subVars, authVars, historyVars>>

SendConnectFail ==
    /\ pc = "sending"
    /\ pc' = "thrown"
    /\ connectError' = "SendFailed"
    /\ UNCHANGED <<sendCalls, otherVars>>
    /\ UNCHANGED <<sessionVars, paramVars, running, disposed, resolverVars,
                   subVars, sent, authVars, historyVars>>

(***************************************************************************)
(* Adb.connect from the await of the resolver to its end.                  *)
(***************************************************************************)
\* variant: _connected is set in the finally block
ResumeMarksConnectedInFinally ==
    /\ pc = "waiting"
    /\ resolver # "pending"
    /\ connected' = TRUE
    /\ pc' = IF resolver = "resolved" THEN "returned" ELSE "thrown"
    /\ connectError' = IF resolver = "resolved" THEN connectError ELSE resolverError
    /\ packetSub' = FALSE
    /\ errorSub' = FALSE
    /\ continuationQueued' = FALSE
    /\ UNCHANGED <<sendCalls, otherVars>>
    /\ UNCHANGED <<meta, paramVars, running, disposed, resolver, resolverError,
                   sent, authVars, historyVars>>

Resume ==
    /\ pc = "waiting"
    /\ resolver # "pending"
    /\ connected' = IF resolver = "resolved" THEN TRUE ELSE connected
    /\ pc' = IF resolver = "resolved" THEN "returned" ELSE "thrown"
    /\ connectError' = IF resolver = "resolved" THEN connectError ELSE resolverError
    /\ packetSub' = FALSE
    /\ errorSub' = FALSE
    /\ continuationQueued' = FALSE
    /\ UNCHANGED <<sendCalls, otherVars>>
    /\ UNCHANGED <<meta, paramVars, running, disposed, resolver, resolverError,
                   sent, authVars, historyVars>>

(***************************************************************************)
(* The packet handler of Adb.connect.                                      *)
(***************************************************************************)
\* variant: an unexpected command is ignored like CLOSE
HandlerCaseIgnoresUnknown(command) ==
    CASE command = "CNXN" -> "Connect"
      [] command = "AUTH" -> "Auth"
      [] OTHER -> "Close"

\* variant: the Close case is missing
HandlerCaseWithoutClose(command) ==
    CASE command = "CNXN" -> "Connect"
      [] command = "AUTH" -> "Auth"
      [] OTHER -> "default"

HandlerCase(command) ==
    CASE command = "CNXN" -> "Connect"
      [] command = "AUTH" -> "Auth"
      [] command = "CLSE" -> "Close"
      [] OTHER -> "default"

\* variant: the peer's size is taken as it is
PeerMaxPayloadSize(arg1) == arg1

NegotiatedMaxPayloadSize(arg1) == Min(maxPayloadSize, arg1)

\* variant: strict comparison with versionNoChecksum
NoChecksumStrict(arg0) == Min(version, arg0) > versionNoChecksum

NoChecksum(arg0) == Min(version, arg0) >= versionNoChecksum

HandleConnect(packet) ==
    /\ dispatcherMaxPayloadSize' = NegotiatedMaxPayloadSize(packet.arg1)
    /\ calculateChecksum' =
           IF NoChecksum(packet.arg0) THEN FALSE ELSE calculateChecksum
    /\ appendNullToServiceString' =
           IF NoChecksum(packet.arg0) THEN FALSE ELSE appendNullToServiceString
    /\ meta' = parseBanner(meta, packet.payload)
    /\ Resolve
    /\ UNCHANGED <<authVars>>

HandleAuth(id) ==
    /\ authCalls' = Append(authCalls, id)
    /\ authState' = [authState EXCEPT ![id] = "next"]
    /\ UNCHANGED <<meta, paramVars, resolver, resolverError>>

HandleClose ==
    UNCHANGED <<meta, paramVars, resolver, resolverError, authVars>>

HandleDefault ==
    /\ Reject("ProtocolViolation")
    /\ UNCHANGED <<meta, paramVars, authVars>>

OnPacket(packet, id) ==
    LET case == HandlerCase(packet.command) IN
    /\ case = "Connect" => HandleConnect(packet)
    /\ case = "Auth" => HandleAuth(id)
    /\ case = "Close" => HandleClose
    /\ case = "default" => HandleDefault
    /\ SettledInPipeline

\* what the peer sent, recorded as the packet event is fired
Observe(packet) ==
    /\ inbox' = Append(inbox, [command |-> packet.command, handled |-> packetSub])
    /\ lastConnect' =
           IF packetSub /\ packet.command = "CNXN" THEN Some(packet) ELSE lastConnect
    /\ peerVersions' =
           IF packetSub /\ packet.command = "CNXN"
           THEN peerVersions \cup {packet.arg0} ELSE peerVersions
    /\ IF packetSub /\ packet.command = "CNXN" THEN Note("Connect")
       ELSE IF packetSub /\ packet.command \in OtherCommands
            THEN Note("ProtocolViolation")
            ELSE UNCHANGED firstEvent

\* the inbound pipeline reads one packet and fires the packet event
Receive(packet) ==
    /\ PipelineReady
    /\ Len(inbox) < MaxPackets
    /\ Observe(packet)
    /\ IF packetSub
       THEN OnPacket(packet, Len(inbox) + 1)
       ELSE UNCHANGED <<meta, paramVars, resolverVars, authVars>>
    /\ UNCHANGED <<sendCalls, otherVars>>
    /\ UNCHANGED <<callVars, connected, running, disposed, subVars, sent>>

ReceiveConnect == \E packet \in ConnectReplies : Receive(packet)
ReceiveAuth == \E packet \in PlainPackets : packet.command = "AUTH" /\ Receive(packet)
ReceiveClose == \E packet \in PlainPackets : packet.command = "CLSE" /\ Receive(packet)
ReceiveOther ==
    \E packet \in PlainPackets : packet.command \in OtherCommands /\ Receive(packet)

(***************************************************************************)
(* The AUTH case after its awaits: authHandler.next, then sendPacket.      *)
(***************************************************************************)
AuthResponse(id) == [command |-> "AUTH", arg0 |-> 0, arg1 |-> 0, for |-> id]

\* variant: the response of the handler is not sent
AuthNextOkWithoutSend(id) ==
    /\ authState[id] = "next"
    /\ authState' = [authState EXCEPT ![id] = "done"]
    /\ UNCHANGED <<sendCalls, otherVars>>
    /\ UNCHANGED <<callVars, sessionVars, paramVars, running, disposed,
                   resolverVars, subVars, sent, authCalls, historyVars>>

AuthNextOk(id) ==
    /\ authState[id] = "next"
    /\ authState' = [authState EXCEPT ![id] = "send"]
    /\ sendCalls' = Append(sendCalls, Called(AuthResponse(id)))
    /\ UNCHANGED otherVars
    /\ UNCHANGED <<callVars, sessionVars, paramVars, running, disposed,
                   resolverVars, subVars, sent, authCalls, historyVars>>

\* variant: the failure of the handler is not caught into the resolver
AuthNextFailSwallowed(id) ==
    /\ authState[id] = "next"
    /\ authState' = [authState EXCEPT ![id] = "failedNext"]
    /\ Note("AuthenticationFailed")
    /\ UNCHANGED <<sendCalls, otherVars>>
    /\ UNCHANGED <<callVars, sessionVars, paramVars, running, disposed,
                   resolverVars, subVars, sent, authCalls, inbox,
                   lastConnect, peerVersions>>

AuthNextFail(id) ==
    /\ authState[id] = "next"
    /\ authState' = [authState EXCEPT ![id] = "failedNext"]
    /\ Reject("AuthenticationFailed")
    /\ Note("AuthenticationFailed")
    /\ UNCHANGED <<sendCalls, otherVars>>
    /\ UNCHANGED <<callVars, sessionVars, paramVars, running, disposed,
                   continuationQueued, subVars, sent, authCalls, inbox,
                   lastConnect, peerVersions>>

\* the dispatcher writes packets in the order of the sendPacket calls: a
\* response is written after the CONNECT packet that was passed first
AuthSendOk(id) ==
    /\ authState[id] = "send"
    /\ pc # "sending"
    /\ ~disposed
    /\ sent' = Append(sent, AuthResponse(id))
    /\ authState' = [authState EXCEPT ![id] = "done"]
    /\ UNCHANGED <<sendCalls, otherVars>>
    /\ UNCHANGED <<callVars, sessionVars, paramVars, running, disposed,
                   resolverVars, subVars, authCalls, historyVars>>

AuthSendFail(id) ==
    /\ authState[id] = "send"
    /\ authState' = [authState EXCEPT ![id] = "failedSend"]
    /\ Reject("SendFailed")
    /\ Note("SendFailed")
    /\ UNCHANGED <<sendCalls, otherVars>>
    /\ UNCHANGED <<callVars, sessionVars, paramVars, running, disposed,
                   continuationQueued, subVars, sent, authCalls, inbox,
                   lastConnect, peerVersions>>

(***************************************************************************)
(* The error handler of Adb.connect, fired by the dispatcher, and          *)
(* Adb.dispose.                                                            *)
(***************************************************************************)
\* variant: the error handler rejects with an error of its own
OnErrorGeneric(e) ==
    /\ Reject("Error")
    /\ SettledInPipeline

OnError(e) ==
    /\ Reject(e)
    /\ SettledInPipeline

\* the dispatcher reports a decode or transport error to its subscribers
DispatcherError(e) ==
    /\ PipelineReady
    /\ running' = (e # "TransportError")
    /\ IF errorSub
       THEN OnError(e) /\ Note(e)
       ELSE UNCHANGED <<resolverVars, firstEvent>>
    /\ UNCHANGED <<sendCalls, otherVars>>
    /\ UNCHANGED <<callVars, sessionVars, paramVars, disposed, subVars, sent,
                   inbox, authVars, lastConnect, peerVersions>>

\* variant: dispose only stops the pipeline
DispatcherDisposeSilent ==
    /\ disposed' = TRUE
    /\ running' = FALSE
    /\ UNCHANGED <<resolverVars, firstEvent>>

\* packetDispatcher.dispose(): the pipeline stops and what is suspended on
\* the dispatcher is rejected
DispatcherDispose ==
    /\ disposed' = TRUE
    /\ running' = FALSE
    /\ IF errorSub
       THEN OnError("Disposed") /\ Note("Disposed")
       ELSE UNCHANGED <<resolverVars, firstEvent>>

Dispose ==
    /\ ~disposed
    /\ ~(pc = "waiting" /\ continuationQueued)
    /\ DispatcherDispose
    /\ UNCHANGED <<sendCalls, otherVars>>
    /\ UNCHANGED <<callVars, sessionVars, paramVars, subVars, sent, inbox,
                   authVars, lastConnect, peerVersions>>

Next ==
    \/ CallConnect
    \/ BackendConnectFail
    \/ StartHandshake
    \/ StartAfterDispose
    \/ SendConnectOk
    \/ SendConnectFail
    \/ Resume
    \/ ReceiveConnect
    \/ ReceiveAuth
    \/ ReceiveClose
    \/ ReceiveOther
    \/ \E id \in PacketIds : AuthNextOk(id)
    \/ \E id \in PacketIds : AuthNextFail(id)
    \/ \E id \in PacketIds : AuthSendOk(id)
    \/ \E id \in PacketIds : AuthSendFail(id)
    \/ \E e \in DispatcherErrors : DispatcherError(e)
    \/ Dispose

Spec == Init /\ [][Next]_vars

(***************************************************************************)
(* Properties of the handshake.                                            *)
(***************************************************************************)
ConnectReplyProcessed ==
    \E i \in 1..Len(inbox) : inbox[i] = [command |-> "CNXN", handled |-> TRUE]

\* C1: the session is Connected only after a CONNECT reply of the peer was
\* processed by the handshake: while none was, connected is false.
C1_ConnectedOnlyAfterConnectReply ==
    connected => (ConnectReplyProcessed /\ resolver = "resolved")

C1_Witness ==
    /\ connected
    /\ pc = "returned"
    /\ ConnectReplyProcessed

C3_MaxPayloadSizeIsMin ==
    lastConnect # Undefined =>
        LET peer == lastConnect[1].arg1 IN
        /\ dispatcherMaxPayloadSize <= 1048576
        /\ dispatcherMaxPayloadSize <= peer
        /\ dispatcherMaxPayloadSize \in {1048576, peer}

C3_Witness ==
    /\ lastConnect # Undefined
    /\ lastConnect[1].arg1 = 1048577
    /\ dispatcherMaxPayloadSize = 1048576
    /\ connected

\* C4: once a CONNECT reply was processed, checksum calculation and
\* null-termination are both disabled if the smaller of the local version and
\* a peer version reaches versionNoChecksum, both are enabled otherwise, and
\* the two flags are equal.
C4_FlagsFollowPeerVersion ==
    peerVersions # {} =>
        /\ calculateChecksum = appendNullToServiceString
        /\ calculateChecksum =
               ~(\E v \in peerVersions :
                    (IF v <= version THEN v ELSE version) >= versionNoChecksum)

C4_Witness ==
    /\ peerVersions = {16777216}
    /\ calculateChecksum
    /\ appendNullToServiceString
    /\ connected

\* C5: after connect() has rejected, for whatever reason, the session is not
\* Connected.
C5_FailedConnectLeavesDisconnected ==
    pc = "thrown" => ~connected

C5_Witness ==
    /\ pc = "thrown"
    /\ connectError = "AuthenticationFailed"
    /\ ConnectReplyProcessed
    /\ ~connected

\* C6: whenever connect() has returned or thrown, neither the packet nor the
\* error subscription it registered is still active.
C6_SubscriptionsReleased ==
    pc \in {"returned", "thrown"} => (~packetSub /\ ~errorSub)

CloseHandled ==
    \E i \in 1..Len(inbox) : inbox[i] = [command |-> "CLSE", handled |-> TRUE]

Delivered(command) ==
    /\ packetSub
    /\ Len(inbox') = Len(inbox) + 1
    /\ inbox'[Len(inbox')].command = command

\* C7: a CLOSE packet delivered to the handshake settles nothing, sends
\* nothing and leaves connected, the dispatcher parameters and the metadata
\* as they are; a CONNECT reply delivered after it to the pending handshake
\* resolves it, and connect() then returns with the session Connected.
C7_CloseIsIgnored ==
    [][ /\ Delivered("CLSE") =>
            UNCHANGED <<resolver, resolverError, sent, connected, paramVars,
                        meta, pc, connectError, authState>>
        /\ (CloseHandled /\ resolver = "pending" /\ Delivered("CNXN")) =>
            resolver' = "resolved"
        /\ (CloseHandled /\ resolver = "resolved" /\ pc = "waiting" /\ pc' # pc) =>
            (pc' = "returned" /\ connected')
      ]_vars

C7_Witness ==
    /\ Len(inbox) = 2
    /\ inbox[1] = [command |-> "CLSE", handled |-> TRUE]
    /\ inbox[2] = [command |-> "CNXN", handled |-> TRUE]
    /\ pc = "returned"
    /\ connected

Count(seq, x) == Cardinality({k \in 1..Len(seq) : seq[k] = x})

ResponseTo(id) == [command |-> "AUTH", arg0 |-> 0, arg1 |-> 0, for |-> id]

AuthSent == {k \in 1..Len(sent) : sent[k].command = "AUTH"}

\* C8: every AUTH packet delivered to the handshake is passed once to the
\* authentication handler; the response the handler produced for it is sent
\* exactly once when its handling has finished and no other AUTH packet is
\* ever sent; and as long as no CONNECT reply and no failure has occurred the
\* handshake stays pending: not Connected, connect() neither returned nor
\* failed on the handshake.
C8_AuthAnsweredOnce ==
    /\ \A id \in PacketIds :
          /\ Count(authCalls, id) =
                IF /\ id <= Len(inbox)
                   /\ inbox[id] = [command |-> "AUTH", handled |-> TRUE]
                THEN 1 ELSE 0
          /\ Count(sent, ResponseTo(id)) = IF authState[id] = "done" THEN 1 ELSE 0
    /\ Cardinality(AuthSent) =
          Cardinality({id \in PacketIds : authState[id] = "done"})
    /\ (firstEvent = "none" /\ resolver # "none") =>
          /\ resolver = "pending"
          /\ ~connected
          /\ pc \in {"sending", "waiting", "thrown"}
          /\ (pc = "thrown" => connectError = "SendFailed")

C8_Witness ==
    /\ Len(inbox) = 2
    /\ inbox[1].command = "AUTH"
    /\ inbox[2].command = "AUTH"
    /\ authState[1] = "done"
    /\ authState[2] = "done"
    /\ sent = <<ConnectPacket, ResponseTo(2), ResponseTo(1)>>
    /\ resolver = "pending"
    /\ pc = "waiting"

C12_DisposedIsNotConnected ==
    disposed => ~connected

\* C13: after a CONNECT reply was processed, and once the session is
\* Connected, no step changes maxPayloadSize or the checksum and
\* null-termination flags again.
C13_ParametersSetOnce ==
    [][(lastConnect # Undefined \/ connected) => UNCHANGED paramVars]_vars

\* C14: the device metadata is absent in every state in which the handshake
\* has not been resolved, and in every state after a connect() that failed.
C14_MetadataAbsentBeforeConnected ==
    (resolver # "resolved" \/ pc = "thrown") => meta = NoMeta

\* C16: the first sendPacket call of connect() passes CONNECT with the local
\* version 0x01000001 and the local maximum 0x100000, and it is made with the
\* transport opened, the initial parameters set, the pipeline started and both
\* subscribers registered; CONNECT is passed exactly once; every AUTH response
\* is passed, and written, after it.
C16_ConnectFirstAndOnce ==
    [][ /\ (sendCalls = <<>> /\ sendCalls' # <<>>) =>
              /\ pc = "opening"
              /\ sendCalls' =
                    <<[command |-> "CNXN", arg0 |-> 16777217, arg1 |-> 1048576]>>
              /\ running' /\ packetSub' /\ errorSub'
              /\ calculateChecksum' /\ appendNullToServiceString'
              /\ dispatcherMaxPayloadSize' = 4096
        /\ pc' \in {"idle", "opening"} => (sendCalls' = <<>> /\ sent' = <<>>)
        /\ pc' \in {"sending", "waiting", "returned"} =>
              Cardinality({k \in 1..Len(sendCalls') :
                              sendCalls'[k].command = "CNXN"}) = 1
        /\ sendCalls' # <<>> =>
              /\ sendCalls'[1].command = "CNXN"
              /\ \A k \in 2..Len(sendCalls') : sendCalls'[k].command = "AUTH"
        /\ \A k \in 1..Len(sent') :
              /\ sent'[k].command = "CNXN" => k = 1
              /\ (sent'[k].command = "AUTH" /\ connectError' # "SendFailed") =>
                    (k > 1 /\ sent'[1].command = "CNXN")
      ]_vars

C16_Witness ==
    /\ Len(sendCalls) = 3
    /\ sent = <<ConnectPacket, ResponseTo(1), ResponseTo(2)>>
    /\ pc = "returned"

\* C17: from start() until a CONNECT reply is processed, checksum and
\* null-termination are enabled; in every state the dispatcher's
\* maxPayloadSize is at most the local maximum 0x100000.
C17_InitialParameters ==
    /\ dispatcherMaxPayloadSize <= 1048576
    /\ (resolver # "none" /\ lastConnect = Undefined) =>
          (calculateChecksum /\ appendNullToServiceString)

C17_Witness ==
    /\ pc = "waiting"
    /\ resolver = "pending"
    /\ Len(inbox) = 2
    /\ lastConnect = Undefined
    /\ calculateChecksum
    /\ appendNullToServiceString
    /\ dispatcherMaxPayloadSize = 4096

\* C19: the first settling event decides the outcome of connect() for good:
\* when it is a processed CONNECT reply the handshake is and stays resolved,
\* when it is a failure the handshake is and stays rejected with that
\* failure, the session is not Connected and connect() does not return.
C19_SettledOnceByFirstEvent ==
    /\ firstEvent = "none" => resolver \in {"none", "pending"}
    /\ firstEvent = "Connect" =>
          /\ resolver = "resolved"
          /\ (pc = "thrown" => connectError = "SendFailed")
    /\ firstEvent \notin {"none", "Connect"} =>
          /\ resolver = "rejected"
          /\ resolverError = firstEvent
          /\ ~connected
          /\ pc # "returned"
    /\ connected => firstEvent = "Connect"

C19_Witness ==
    /\ firstEvent = "Connect"
    /\ \E id \in PacketIds : authState[id] = "failedNext"
    /\ pc = "returned"
    /\ connected

(***************************************************************************)
(* parseBanner alone, on a fresh session, over banners built from entries. *)
(***************************************************************************)
MaxEntries == 3

RECURSIVE Join(_, _)
Join(texts, sep) ==
    IF texts = <<>> THEN <<>>
    ELSE IF Len(texts) = 1 THEN texts[1]
    ELSE texts[1] \o sep \o Join(Tail(texts), sep)

\* an entry of the property list: a key=value pair whose value is a list of
\* comma-separated items, an empty entry, a key without "=", or key=value=value
Entry(form, key, items) == [form |-> form, key |-> key, items |-> items]

Entries ==
    { Entry("pair", Product, <<<<"a">>>>),
      Entry("pair", Product, <<<<"b">>>>),
      Entry("pair", Model, <<<<"a">>>>),
      Entry("pair", Device, <<<<"b">>>>),
      Entry("pair", Features, <<<<"a">>, <<"b">>>>),
      Entry("pair", Features, <<<<>>>>),
      Entry("pair", <<"ro.serialno">>, <<<<"a">>>>),
      Entry("empty", <<>>, <<>>),
      Entry("bare", Product, <<>>),
      Entry("double", Product, <<<<"a">>>>) }

EntryText(e) ==
    CASE e.form = "empty" -> <<>>
      [] e.form = "bare" -> e.key
      [] e.form = "pair" -> e.key \o <<"=">> \o Join(e.items, <<",">>)
      [] e.form = "double" ->
            e.key \o <<"=">> \o Join(e.items, <<",">>)
                  \o <<"=">> \o Join(e.items, <<",">>)

\* what follows a second "::"
Trailer == <<"x">>

\* a banner: "device", then with one delimiter "::" and the entries joined
\* by ";", with two delimiters a further "::" and the trailer; with no
\* delimiter the entries follow "device" directly
BannerInputs ==
    [delimiters : 0..2,
     entries : UNION {[1..n -> Entries] : n \in 0..MaxEntries}]

BannerText(b) ==
    <<"device">>
    \o (IF b.delimiters >= 1 THEN <<":", ":">> ELSE <<>>)
    \o Join([k \in 1..Len(b.entries) |-> EntryText(b.entries[k])], <<";">>)
    \o (IF b.delimiters = 2 THEN <<":", ":">> \o Trailer ELSE <<>>)

BannerInit ==
    /\ NewSession
    /\ calculateChecksum
    /\ appendNullToServiceString
    /\ banner \in BannerInputs
    /\ parsed = FALSE
    /\ NoRead
    /\ NoRender

ParseBanner ==
    /\ ~parsed
    /\ meta' = parseBanner(meta, BannerText(banner))
    /\ parsed' = TRUE
    /\ UNCHANGED <<banner, callVars, connected, paramVars, running, disposed,
                   resolverVars, subVars, sent, authVars, historyVars,
                   sendCalls, readVars, routeVars>>

BannerNext == ParseBanner

BannerSpec == BannerInit /\ [][BannerNext]_vars

\* the last key=value pair with this key among the entries, 0 when none
LastPair(entries, key) ==
    LET S == {k \in 1..Len(entries) :
                 entries[k].form = "pair" /\ entries[k].key = key}
    IN IF S = {} THEN 0 ELSE CHOOSE k \in S : \A j \in S : j <= k

PairValue(entries, key) ==
    IF LastPair(entries, key) = 0 THEN Undefined
    ELSE Some(Join(entries[LastPair(entries, key)].items, <<",">>))

PairItems(entries, key) ==
    IF LastPair(entries, key) = 0 THEN Some(<<>>)
    ELSE Some(entries[LastPair(entries, key)].items)

FieldsFrom(entries) ==
    [product |-> PairValue(entries, Product),
     model |-> PairValue(entries, Model),
     device |-> PairValue(entries, Device),
     features |-> PairItems(entries, Features)]

\* the entries when everything after the first "::" is the property list:
\* the text after a second "::" belongs to the last entry
WithTrailer(entries) ==
    LET n == Len(entries)
        last == entries[n]
        m == Len(last.items)
    IN IF n = 0 \/ last.form # "pair" THEN entries
       ELSE [entries EXCEPT ![n].items[m] = @ \o <<":", ":">> \o Trailer]

\* C15, as stated: product, model, device and features are those of the
\* key=value entries after the first "::", whatever follows it; malformed
\* and unknown entries are skipped; without "::" only features is set, empty.
C15_EntriesAfterFirstDelimiter ==
    parsed =>
        meta = CASE banner.delimiters = 0 -> FieldsFrom(<<>>)
                 [] banner.delimiters = 1 -> FieldsFrom(banner.entries)
                 [] banner.delimiters = 2 ->
                       FieldsFrom(WithTrailer(banner.entries))

\* C15: product, model, device and features are those of the key=value
\* entries between the first "::" and the next "::" or the end of the banner
\* (the last entry of a key wins); malformed and unknown entries are skipped;
\* without "::" only features is set, empty.
C15_EntriesOfSecondPiece ==
    parsed =>
        meta = IF banner.delimiters = 0 THEN FieldsFrom(<<>>)
               ELSE FieldsFrom(banner.entries)

C15_Witness ==
    /\ parsed
    /\ banner.delimiters = 2
    /\ banner.entries = <<Entry("double", Product, <<<<"a">>>>),
                          Entry("pair", <<"ro.serialno">>, <<<<"a">>>>),
                          Entry("pair", Features, <<<<"a">>, <<"b">>>>)>>
    /\ meta = [product |-> Undefined, model |-> Undefined,
               device |-> Undefined,
               features |-> Some(<<<<"a">>, <<"b">>>>)]

(***************************************************************************)
(* Adb.createStreamAndReadAll.  A buffer is a sequence of bytes, a string  *)
(* a sequence of characters; "C3" "A9" is the two-byte encoding of U+00E9. *)
(* The stream is the dispatcher's: it passes buffers to the onData         *)
(* subscriber in arrival order and reports its close once.  A buffer       *)
(* passed on after the close is modelled too.                              *)
(***************************************************************************)
MaxChunks == 3

Buffers ==
    { <<"a">>, <<"b">>, <<"C3", "A9">>, <<"C3">>, <<"A9">>, <<"a", "C3">> }

\* backend.decodeUtf8: a well-formed sequence gives its character, a byte
\* that is part of none gives the replacement character
RECURSIVE decodeUtf8(_)
decodeUtf8(buffer) ==
    IF buffer = <<>> THEN <<>>
    ELSE IF Len(buffer) >= 2 /\ buffer[1] = "C3" /\ buffer[2] = "A9"
         THEN <<"U+00E9">> \o decodeUtf8(SubSeq(buffer, 3, Len(buffer)))
    ELSE IF buffer[1] \in {"C3", "A9"}
         THEN <<"U+FFFD">> \o decodeUtf8(Tail(buffer))
    ELSE <<buffer[1]>> \o decodeUtf8(Tail(buffer))

ReadInit ==
    /\ NewSession
    /\ calculateChecksum
    /\ appendNullToServiceString
    /\ NoBanner
    /\ NoRead
    /\ NoRender

SessionIdle == UNCHANGED <<handshakeVars, bannerVars, routeVars>>

CallCreateStreamAndReadAll ==
    /\ readPc = "idle"
    /\ readPc' = "creating"
    /\ UNCHANGED <<result, returned, delivered, closedAfter>>
    /\ SessionIdle

\* createStream rejects: the call throws
CreateStreamFail ==
    /\ readPc = "creating"
    /\ readPc' = "thrown"
    /\ UNCHANGED <<result, returned, delivered, closedAfter>>
    /\ SessionIdle

\* createStream resolves: result = '', both handlers are subscribed and the
\* call awaits its resolver
CreateStreamOk ==
    /\ readPc = "creating"
    /\ readPc' = "reading"
    /\ result' = <<>>
    /\ UNCHANGED <<returned, delivered, closedAfter>>
    /\ SessionIdle

\* variant: a new chunk is put in front of the earlier ones
OnDataPrepends(buffer) ==
    /\ readPc \in {"reading", "returned"}
    /\ Len(delivered) < MaxChunks
    /\ result' = decodeUtf8(buffer) \o result
    /\ delivered' = Append(delivered, buffer)
    /\ UNCHANGED <<readPc, returned, closedAfter>>
    /\ SessionIdle

\* the onData handler
OnData(buffer) ==
    /\ readPc \in {"reading", "returned"}
    /\ Len(delivered) < MaxChunks
    /\ result' = result \o decodeUtf8(buffer)
    /\ delivered' = Append(delivered, buffer)
    /\ UNCHANGED <<readPc, returned, closedAfter>>
    /\ SessionIdle

\* the onClose handler: the resolver is resolved with the string `result`
\* holds now, and the call returns it
OnClose ==
    /\ readPc = "reading"
    /\ returned' = Some(result)
    /\ closedAfter' = Some(Len(delivered))
    /\ readPc' = "returned"
    /\ UNCHANGED <<result, delivered>>
    /\ SessionIdle

ReadNext ==
    \/ CallCreateStreamAndReadAll
    \/ CreateStreamFail
    \/ CreateStreamOk
    \/ \E buffer \in Buffers : OnData(buffer)
    \/ OnClose

ReadSpec == ReadInit /\ [][ReadNext]_vars

\* the decoded buffers 1..n, one after the other
RECURSIVE Decoded(_, _)
Decoded(buffers, n) ==
    IF n = 0 THEN <<>>
    ELSE Decoded(buffers, n - 1) \o decodeUtf8(buffers[n])

\* C18: the call has returned exactly when the stream has closed, not
\* before; what it returned is the decoded buffers the stream delivered
\* before the close, in arrival order, whatever is delivered afterwards.
C18_ReadAllUntilClose ==
    /\ (readPc = "returned") = (closedAfter # Undefined)
    /\ (returned # Undefined) = (closedAfter # Undefined)
    /\ closedAfter # Undefined =>
          returned = Some(Decoded(delivered, closedAfter[1]))

C18_Witness ==
    /\ readPc = "returned"
    /\ delivered = << <<"a", "C3">>, <<"A9">>, <<"b">> >>
    /\ closedAfter = Some(2)
    /\ returned = Some(<<"a", "U+FFFD", "U+FFFD">>)

(***************************************************************************)
(* CacheRoute: one mounted component, rendered again and again with the    *)
(* result of useRouteMatch and its props.  null is Undefined, the rendered *)
(* Stack a defined value.                                                  *)
(***************************************************************************)
MaxRenders == 4

\* useRouteMatch gives a match object or null
RouteMatches == {"null", "match"}
\* !!match
Bool(match) == match # "null"

\* props.children: valid elements, and nodes that are not elements
ChildrenProps == { <<"element">>, <<"text", "element">> }

RouteInit ==
    /\ NewSession
    /\ calculateChecksum
    /\ appendNullToServiceString
    /\ NoBanner
    /\ NoRead
    /\ NoRender

\* variant: the ref follows the current match
EverMatchedNow(match) == Bool(match)

\* everMatched.current after lines 24-27
EverMatchedAfter(match) == everMatched \/ Bool(match)

\* useMemo(..., [!!match]): computed again when the dependency changed
UseMemo(match) ==
    IF memoDeps = Some(Bool(match))
    THEN UNCHANGED <<memoDeps, stackProps>>
    ELSE /\ memoDeps' = Some(Bool(match))
         /\ stackProps' =
               Some([display |-> IF Bool(match) THEN "flex" ELSE "none"])

\* React.Children.map: elements are cloned with visible, others kept
MapChildren(children, match) ==
    [k \in 1..Len(children) |->
        IF children[k] = "element"
        THEN [node |-> "element", visible |-> Some(Bool(match))]
        ELSE [node |-> children[k], visible |-> Undefined]]

Render(match, noCache, children) ==
    /\ Len(renders) < MaxRenders
    /\ everMatched' = EverMatchedAfter(match)
    /\ UseMemo(match)
    /\ output' =
          IF noCache /\ ~Bool(match) THEN Undefined
          ELSE IF ~everMatched' THEN Undefined
          ELSE Some([display |-> stackProps'[1].display,
                     children |-> MapChildren(children, match)])
    /\ renders' = Append(renders, [match |-> match, noCache |-> noCache,
                                   children |-> children])
    /\ UNCHANGED <<handshakeVars, bannerVars, readVars>>

RouteNext ==
    \E match \in RouteMatches, noCache \in BOOLEAN, children \in ChildrenProps :
        Render(match, noCache, children)

RouteSpec == RouteInit /\ [][RouteNext]_vars

MatchedUpTo(n) == \E k \in 1..n : renders[k].match = "match"

\* C20: the ref is set exactly when some render so far had a match; a render
\* returns null when no render so far had a match, and when noCache is set
\* and it has no match; every other render returns the children, with
\* display flex and visible true when it has a match, display none and
\* visible false when it has none.
C20_EverMatchedLatch ==
    /\ everMatched = MatchedUpTo(Len(renders))
    /\ renders # <<>> =>
          LET last == renders[Len(renders)]
              now == last.match = "match"
          IN IF ~MatchedUpTo(Len(renders)) \/ (last.noCache /\ ~now)
             THEN output = Undefined
             ELSE /\ output # Undefined
                  /\ output[1].display = IF now THEN "flex" ELSE "none"
                  /\ Len(output[1].children) = Len(last.children)
                  /\ \A k \in 1..Len(last.children) :
                        /\ output[1].children[k].node = last.children[k]
                        /\ last.children[k] = "element" =>
                              output[1].children[k].visible = Some(now)

C20_Witness ==
    /\ Len(renders) = 4
    /\ renders[1].match = "null"
    /\ renders[2].match = "match"
    /\ renders[3].match = "null" /\ renders[3].noCache
    /\ renders[4].match = "null" /\ ~renders[4].noCache
    /\ renders[4].children = <<"text", "element">>
    /\ output = Some([display |-> "none",
                      children |->
                         <<[node |-> "text", visible |-> Undefined],
                           [node |-> "element", visible |-> Some(FALSE)]>>])

====
